---- MODULE Spec2Model ----
(***************************************************************************)
(* Model of streamlit_app.py: one triggered run of main(), from the button *)
(* press over download_and_extract, process_data, create_pivot_tables and  *)
(* the pd.ExcelWriter block (summary sheets, save_monthly_data,            *)
(* plot_and_save_pivot_tables, image embedding, save on exit) to the       *)
(* download button.                                                        *)
(***************************************************************************)
EXTENDS Integers, Sequences, FiniteSets, TLC

VARIABLES
    pc,           \* position of main(): the statement to execute next, or
                  \* the statement that raised / returned when the run is over
    run,          \* "running", "failed" (error return or exception) or "done"
    namelist,     \* zip_ref.namelist() of the downloaded archive
    target_file,  \* result of download_and_extract (<<>> is None)
    df,           \* the DataFrame returned by process_data
    pivot_hours,  \* first table of create_pivot_tables
    pivot_days,   \* second table of create_pivot_tables
    book,         \* writer.book: the sheets in creation order
    images,       \* image paths returned by plot_pivot, in call order
    disk,         \* the file at excel_path
    messages,     \* what the operator sees: st.error / st.success / traceback
    download      \* TRUE when st.download_button has been shown

vars == <<pc, run, namelist, target_file, df, pivot_hours, pivot_days, book,
          images, disk, messages, download>>

-----------------------------------------------------------------------------
(* Bounds of the model *)

\* longest CSV (number of data rows) that is enumerated
MaxRows == 2

\* MESS_DATUM values of the enumerated CSV rows; the last one has month 13
\* and does not parse with '%Y%m%d%H'
Timestamps ==
    {2023010100, 2023010113, 2023010200, 2023070100, 2024010100, 2023130100}

\* TT_TU values of the enumerated CSV rows (-999 is the source's missing marker)
Values == {-999, 0, 26, 27}

\* the enumerated archive listings; a member name is a sequence of words
Archives ==
    { <<>>,
      << <<"Metadaten", "Geographie", "02014">> >>,
      << <<"Metadaten", "Geographie", "02014">>, <<"produkt", "tu", "termin">> >>,
      << <<"Metadaten", "Geographie", "02014">>,
         <<"alt", "produkt", "tu", "stunde">>,
         <<"produkt", "tu", "stunde", "02014">> >> }

-----------------------------------------------------------------------------
(* Program constants *)

\* the literal 27 of create_pivot_tables and of the highlight loop
Threshold == 27

\* keyword = 'produkt_tu_stunde'
keyword == <<"produkt", "tu", "stunde">>

\* the column labels assigned to both pivot tables
MonthLabels ==
    <<"Jan", "Feb", "Mrz", "Apr", "Mai", "Jun",
      "Jul", "Aug", "Sep", "Okt", "Nov", "Dez">>

\* the dict months of save_monthly_data, in insertion order (keys 1..12)
months ==
    <<"Jan", "Feb", "Mrz", "Apr", "Mai", "Jun",
      "Jul", "Aug", "Sep", "Okt", "Nov", "Dez">>

SheetHours == "Überschreitungen (Stunden)"

SheetDays == "Überschreitungen (Tage)"

excel_path == "wetterdaten_analyse_jahr_monat_linie.xlsx"

None == <<>>

-----------------------------------------------------------------------------
(* Sequence helpers *)

RECURSIVE SeqsUpTo(_, _)
SeqsUpTo(S, n) ==
    IF n = 0 THEN {<<>>}
    ELSE LET shorter == SeqsUpTo(S, n - 1)
         IN  shorter \cup {Append(s, x) : s \in {t \in shorter : Len(t) = n - 1}, x \in S}

Range(s) == {s[i] : i \in 1..Len(s)}

\* ascending order of a finite set of integers (pandas sorts group keys)
RECURSIVE SortedSeq(_)
SortedSeq(S) ==
    IF S = {} THEN <<>>
    ELSE LET lo == CHOOSE x \in S : \A y \in S : x <= y
         IN  <<lo>> \o SortedSeq(S \ {lo})

\* Series.unique(): the distinct values in order of first appearance
RECURSIVE Unique(_)
Unique(s) ==
    IF s = <<>> THEN <<>>
    ELSE LET front == Unique(SubSeq(s, 1, Len(s) - 1))
             last  == s[Len(s)]
         IN  IF last \in Range(front) THEN front ELSE Append(front, last)

RECURSIVE Flatten(_)
Flatten(ss) == IF ss = <<>> THEN <<>> ELSE Head(ss) \o Flatten(Tail(ss))

-----------------------------------------------------------------------------
(* download_and_extract *)

\* keyword in file
Contains(kw, file) ==
    \E i \in 0..(Len(file) - Len(kw)) : SubSeq(file, i + 1, i + Len(kw)) = kw

\* variant of FirstMatch that takes the first member whatever its name
FirstMember(names, kw) == IF names = <<>> THEN None ELSE names[1]

\* next((file for file in names if keyword in file), None)
FirstMatch(names, kw) ==
    LET hits == {i \in 1..Len(names) : Contains(kw, names[i])}
    IN  IF hits = {} THEN None
        ELSE names[CHOOSE i \in hits : \A j \in hits : i <= j]

-----------------------------------------------------------------------------
(* process_data *)

IsLeap(y) == (y % 4 = 0 /\ y % 100 # 0) \/ y % 400 = 0

DaysIn(y, m) ==
    IF m = 2 THEN (IF IsLeap(y) THEN 29 ELSE 28)
    ELSE IF m \in {4, 6, 9, 11} THEN 30 ELSE 31

\* the four fields of a 10-digit MESS_DATUM under format '%Y%m%d%H'
TsYear(ts)  == ts \div 1000000
TsMonth(ts) == (ts \div 10000) % 100
TsDay(ts)   == (ts \div 100) % 100
TsHour(ts)  == ts % 100

\* pd.to_datetime(..., format='%Y%m%d%H') accepts the value
Parses(ts) ==
    /\ TsMonth(ts) \in 1..12
    /\ TsDay(ts) \in 1..DaysIn(TsYear(ts), TsMonth(ts))
    /\ TsHour(ts) \in 0..23

\* one row of the DataFrame with the derived columns
ParseRow(raw) ==
    [ Zeitstempel |-> raw.MESS_DATUM,
      Wert        |-> raw.TT_TU,
      Jahr        |-> TsYear(raw.MESS_DATUM),
      Monat       |-> TsMonth(raw.MESS_DATUM),
      Tag         |-> <<TsYear(raw.MESS_DATUM), TsMonth(raw.MESS_DATUM), TsDay(raw.MESS_DATUM)>>,
      Uhrzeit     |-> TsHour(raw.MESS_DATUM) ]

process_data(csv) == [i \in 1..Len(csv) |-> ParseRow(csv[i])]

RawRows == [MESS_DATUM : Timestamps, TT_TU : Values]

-----------------------------------------------------------------------------
(* create_pivot_tables *)

\* variant of Exceeding with the comparison > in place of >=
ExceedingStrict(frame) == SelectSeq(frame, LAMBDA r : r.Wert > Threshold)

\* df[df['Wert'] >= 27]
Exceeding(frame) == SelectSeq(frame, LAMBDA r : r.Wert >= Threshold)

\* number of rows of frame in group (year, month): aggfunc='count'
CountIn(frame, year, month) ==
    Cardinality({i \in 1..Len(frame) : frame[i].Jahr = year /\ frame[i].Monat = month})

\* frame.pivot_table(index='Jahr', columns='Monat', aggfunc='count', fill_value=0):
\* one row per year and one column per month that occur in frame, both ascending
PivotTable(frame) ==
    LET index   == SortedSeq({frame[i].Jahr : i \in 1..Len(frame)})
        columns == SortedSeq({frame[i].Monat : i \in 1..Len(frame)})
    IN  [ index   |-> index,
          columns |-> columns,
          data    |-> [r \in 1..Len(index) |->
                         [c \in 1..Len(columns) |-> CountIn(frame, index[r], columns[c])]] ]

\* variant of Reindex that keeps the old columns by position, not by label
ReindexByPosition(table, newcols, fill) ==
    [ index   |-> table.index,
      columns |-> newcols,
      data    |-> [r \in 1..Len(table.index) |->
                     [c \in 1..Len(newcols) |->
                        IF c <= Len(table.columns) THEN table.data[r][c] ELSE fill]] ]

\* table.reindex(columns=newcols, fill_value=fill): columns aligned by label
Reindex(table, newcols, fill) ==
    LET pos(label) == CHOOSE c \in 1..Len(table.columns) : table.columns[c] = label
    IN  [ index   |-> table.index,
          columns |-> newcols,
          data    |-> [r \in 1..Len(table.index) |->
                         [c \in 1..Len(newcols) |->
                            IF newcols[c] \in Range(table.columns)
                            THEN table.data[r][pos(newcols[c])]
                            ELSE fill]] ]

\* table.columns = labels
SetColumns(table, labels) == [table EXCEPT !.columns = labels]

\* range(1, 13)
MonthRange == [i \in 1..12 |-> i]

\* variant of PivotHours that keeps a row for every year of the frame
PivotHoursAllYears(frame) ==
    LET hot   == Exceeding(frame)
        index == SortedSeq({frame[i].Jahr : i \in 1..Len(frame)})
    IN  [ index   |-> index,
          columns |-> MonthLabels,
          data    |-> [r \in 1..Len(index) |->
                         [c \in 1..12 |-> CountIn(hot, index[r], c)]] ]

PivotHours(frame) ==
    SetColumns(Reindex(PivotTable(Exceeding(frame)), MonthRange, 0), MonthLabels)

\* the calendar day as one number, to order the groups of groupby('Tag')
DayKey(tag) == tag[1] * 10000 + tag[2] * 100 + tag[3]

KeyTag(k) == <<k \div 10000, (k \div 100) % 100, k % 100>>

\* variant of DfDays without the grouping: one row per exceeding observation
DfDaysUngrouped(frame) ==
    LET hot == Exceeding(frame)
    IN  [g \in 1..Len(hot) |->
           [ Tag   |-> hot[g].Tag,
             Ueberschreitungen |-> 1,
             Jahr  |-> hot[g].Tag[1],
             Monat |-> hot[g].Tag[2] ]]

\* df[df['Wert'] >= 27].groupby('Tag').size().reset_index(...) with Jahr and Monat
DfDays(frame) ==
    LET hot  == Exceeding(frame)
        keys == SortedSeq({DayKey(hot[i].Tag) : i \in 1..Len(hot)})
    IN  [g \in 1..Len(keys) |->
           LET tag == KeyTag(keys[g])
           IN  [ Tag   |-> tag,
                 Ueberschreitungen |->
                     Cardinality({i \in 1..Len(hot) : hot[i].Tag = tag}),
                 Jahr  |-> tag[1],
                 Monat |-> tag[2] ]]

PivotDays(frame) ==
    SetColumns(Reindex(PivotTable(DfDays(frame)), MonthRange, 0), MonthLabels)

EmptyTable == [index |-> <<>>, columns |-> <<>>, data |-> <<>>]

-----------------------------------------------------------------------------
(* Sheets of the workbook *)

\* pivot.to_excel(writer, sheet_name=name): header row, then one row per year
\* with the index value in column 1
SummarySheet(name, table) ==
    [ name   |-> name,
      header |-> <<"Jahr">> \o table.columns,
      rows   |-> [r \in 1..Len(table.index) |-> <<table.index[r]>> \o table.data[r]],
      fill   |-> {},
      images |-> <<>> ]

Pad2(n) == IF n < 10 THEN "0" \o ToString(n) ELSE ToString(n)

\* pd.to_datetime(tag).strftime('%d.%m.%Y')
Strftime(tag) == Pad2(tag[3]) \o "." \o Pad2(tag[2]) \o "." \o ToString(tag[1])

\* f"{year}_{month_name}"
SheetName(year, month_name) == ToString(year) \o "_" \o month_name

\* variant of MonthData that filters on the month alone
MonthDataAnyYear(frame, year, month_num) ==
    SelectSeq(frame, LAMBDA r : r.Monat = month_num)

\* df[(df['Jahr'] == year) & (df['Monat'] == month_num)][['Tag', 'Uhrzeit', 'Wert']]
MonthData(frame, year, month_num) ==
    SelectSeq(frame, LAMBDA r : r.Jahr = year /\ r.Monat = month_num)

\* variant of Highlighted with the comparison > in place of >=
HighlightedStrict(value) == value # 0 /\ value > Threshold

\* if cell.value and cell.value >= 27
Highlighted(value) == value # 0 /\ value >= Threshold

\* the rows of column 3 that the loop over iter_rows(min_row=2, min_col=3,
\* max_col=3, max_row=worksheet.max_row) fills
FillCells(rows) ==
    {<<r, 3>> : r \in {q \in 2..(Len(rows) + 1) : Highlighted(rows[q - 1][3])}}

\* the sheet written for one non-empty month_data, with its highlight fill
DetailSheet(frame, year, month_num) ==
    LET month_data == MonthData(frame, year, month_num)
        rows == [i \in 1..Len(month_data) |->
                   <<Strftime(month_data[i].Tag), month_data[i].Uhrzeit, month_data[i].Wert>>]
    IN  [ name   |-> SheetName(year, months[month_num]),
          header |-> <<"Datum", "Uhrzeit", "Temperatur">>,
          rows   |-> rows,
          fill   |-> FillCells(rows),
          images |-> <<>> ]

\* the order in which the outer loop visits the years
YearOrder(frame) == Unique([i \in 1..Len(frame) |-> frame[i].Jahr])

\* the sheets save_monthly_data writes for one year, months in dict order
YearSheets(frame, year) ==
    LET present == SelectSeq(MonthRange, LAMBDA m : MonthData(frame, year, m) # <<>>)
    IN  [k \in 1..Len(present) |-> DetailSheet(frame, year, present[k])]

\* all sheets save_monthly_data writes, in creation order
MonthlySheets(frame) ==
    LET years == YearOrder(frame)
    IN  Flatten([y \in 1..Len(years) |-> YearSheets(frame, years[y])])

\* worksheet.add_image(img, 'E5') on workbook[name]
AddImage(sheets, name, path) ==
    [i \in 1..Len(sheets) |->
       IF sheets[i].name = name
       THEN [sheets[i] EXCEPT !.images = Append(@, [path |-> path, anchor |-> "E5"])]
       ELSE sheets[i]]

NoFile == [exists |-> FALSE, written |-> FALSE, sheets |-> <<>>]

-----------------------------------------------------------------------------
(* main *)

Init ==
    /\ pc = "button"
    /\ run = "running"
    /\ namelist = <<>>
    /\ target_file = None
    /\ df = <<>>
    /\ pivot_hours = EmptyTable
    /\ pivot_days = EmptyTable
    /\ book = <<>>
    /\ images = <<>>
    /\ disk = NoFile
    /\ messages = <<>>
    /\ download = FALSE

\* the statement at label l is about to execute
At(l) == run = "running" /\ pc = l

\* control moves on to the statement at label l
Goto(l) == pc' = l /\ run' = run

\* the run ends at the current statement: an error return or an uncaught exception
Fail == pc' = pc /\ run' = "failed"

ErrDownload == [kind |-> "error", text |-> "Ein Fehler ist aufgetreten"]

ErrTarget ==
    [kind |-> "error",
     text |-> "Die Zieldatei konnte nicht heruntergeladen oder extrahiert werden."]

Traceback == [kind |-> "exception", text |-> "Traceback"]

Success == [kind |-> "success", text |-> "Excel-Datei wurde erstellt: " \o excel_path]

\* an exception leaves the with block: ExcelWriter.__exit__ closes the writer,
\* which saves the workbook as it stands (the save itself may fail), and the
\* exception ends the run
RaiseInWith(sheets) ==
    /\ \E saved \in BOOLEAN :
         disk' = [exists |-> TRUE, written |-> saved,
                  sheets |-> IF saved THEN sheets ELSE <<>>]
    /\ book' = sheets
    /\ messages' = Append(messages, Traceback)
    /\ Fail

\* if st.button('Daten herunterladen und analysieren')
Button ==
    /\ At("button")
    /\ Goto("download")
    /\ UNCHANGED <<namelist, target_file, df, pivot_hours, pivot_days, book,
                   images, disk, messages, download>>

\* target_file = download_and_extract(url, keyword)
DownloadAndExtract ==
    /\ At("download")
    /\ \/ \* requests.get, raise_for_status or ZipFile raises: caught, None
          /\ namelist' = <<>>
          /\ target_file' = None
          /\ messages' = Append(messages, ErrDownload)
       \/ \E names \in Archives :
            /\ namelist' = names
            /\ target_file' = FirstMatch(names, keyword)
            /\ messages' = messages
    /\ Goto("check")
    /\ UNCHANGED <<df, pivot_hours, pivot_days, book, images, disk, download>>

\* if not target_file: st.error(...); return
TargetMissing ==
    /\ At("check")
    /\ target_file = None
    /\ messages' = Append(messages, ErrTarget)
    /\ Fail
    /\ UNCHANGED <<namelist, target_file, df, pivot_hours, pivot_days, book,
                   images, disk, download>>

\* if not target_file: is false
TargetFound ==
    /\ At("check")
    /\ target_file # None
    /\ Goto("process")
    /\ UNCHANGED <<namelist, target_file, df, pivot_hours, pivot_days, book,
                   images, disk, messages, download>>

\* df = process_data(target_file): the CSV parses, or to_datetime raises
ProcessData ==
    /\ At("process")
    /\ \E csv \in SeqsUpTo(RawRows, MaxRows) :
         IF \A i \in 1..Len(csv) : Parses(csv[i].MESS_DATUM)
         THEN /\ df' = process_data(csv)
              /\ Goto("pivot")
              /\ messages' = messages
         ELSE /\ df' = df
              /\ Fail
              /\ messages' = Append(messages, Traceback)
    /\ UNCHANGED <<namelist, target_file, pivot_hours, pivot_days, book,
                   images, disk, download>>

\* variant of CreatePivotTables after which the charts are rendered at once,
\* before the writer is opened
CreatePivotTablesThenPlot ==
    /\ At("pivot")
    /\ pivot_hours' = PivotHours(df)
    /\ pivot_days' = PivotDays(df)
    /\ Goto("plot")
    /\ UNCHANGED <<namelist, target_file, df, book, images, disk, messages, download>>

\* pivot_hours, pivot_days = create_pivot_tables(df): the tables, or an
\* exception (a TT_TU column that is not numeric cannot be compared with 27)
CreatePivotTables ==
    /\ At("pivot")
    /\ \/ /\ pivot_hours' = PivotHours(df)
          /\ pivot_days' = PivotDays(df)
          /\ Goto("open")
          /\ messages' = messages
       \/ /\ UNCHANGED <<pivot_hours, pivot_days>>
          /\ Fail
          /\ messages' = Append(messages, Traceback)
    /\ UNCHANGED <<namelist, target_file, df, book, images, disk, download>>

\* with pd.ExcelWriter(excel_path, engine='openpyxl') as writer: the file is
\* opened for writing, or the open fails
OpenWriter ==
    /\ At("open")
    /\ \/ /\ disk' = [exists |-> TRUE, written |-> FALSE, sheets |-> <<>>]
          /\ Goto("hours")
          /\ messages' = messages
       \/ /\ disk' = disk
          /\ Fail
          /\ messages' = Append(messages, Traceback)
    /\ UNCHANGED <<namelist, target_file, df, pivot_hours, pivot_days, book,
                   images, download>>

\* pivot_hours.to_excel(writer, sheet_name='Überschreitungen (Stunden)')
WriteHours ==
    /\ At("hours")
    /\ \/ /\ book' = Append(book, SummarySheet(SheetHours, pivot_hours))
          /\ Goto("days")
          /\ UNCHANGED <<disk, messages>>
       \/ RaiseInWith(book)
    /\ UNCHANGED <<namelist, target_file, df, pivot_hours, pivot_days, images, download>>

\* pivot_days.to_excel(writer, sheet_name='Überschreitungen (Tage)')
WriteDays ==
    /\ At("days")
    /\ \/ /\ book' = Append(book, SummarySheet(SheetDays, pivot_days))
          /\ Goto("monthly")
          /\ UNCHANGED <<disk, messages>>
       \/ RaiseInWith(book)
    /\ UNCHANGED <<namelist, target_file, df, pivot_hours, pivot_days, images, download>>

\* save_monthly_data(df, writer): all sheets, or an exception after some of them
SaveMonthlyData ==
    /\ At("monthly")
    /\ LET sheets == MonthlySheets(df)
       IN  \/ /\ book' = book \o sheets
              /\ Goto("plot")
              /\ UNCHANGED <<disk, messages>>
           \/ \E k \in 0..(Len(sheets) - 1) : RaiseInWith(book \o SubSeq(sheets, 1, k))
    /\ UNCHANGED <<namelist, target_file, df, pivot_hours, pivot_days, images, download>>

\* image_path_hours, image_path_days = plot_and_save_pivot_tables(...): each
\* plot_pivot call writes one temporary png, or raises
PlotAndSavePivotTables ==
    /\ At("plot")
    /\ \/ /\ images' = <<"hours.png", "days.png">>
          /\ Goto("embed")
          /\ UNCHANGED <<book, disk, messages>>
       \/ /\ images' = <<>>
          /\ RaiseInWith(book)
       \/ /\ images' = <<"hours.png">>
          /\ RaiseInWith(book)
    /\ UNCHANGED <<namelist, target_file, df, pivot_hours, pivot_days, download>>

\* Image(...) for both paths, then add_image on both summary sheets
EmbedImages ==
    /\ At("embed")
    /\ \/ /\ book' = AddImage(AddImage(book, SheetHours, images[1]), SheetDays, images[2])
          /\ Goto("exit")
          /\ UNCHANGED <<disk, messages>>
       \/ RaiseInWith(book)
    /\ UNCHANGED <<namelist, target_file, df, pivot_hours, pivot_days, images, download>>

\* the with block ends normally: the writer saves the workbook, or the save raises
ExitWriter ==
    /\ At("exit")
    /\ \/ /\ disk' = [exists |-> TRUE, written |-> TRUE, sheets |-> book]
          /\ Goto("success")
          /\ messages' = messages
       \/ /\ disk' = [exists |-> TRUE, written |-> FALSE, sheets |-> <<>>]
          /\ Fail
          /\ messages' = Append(messages, Traceback)
    /\ UNCHANGED <<namelist, target_file, df, pivot_hours, pivot_days, book,
                   images, download>>

\* st.success(...); st.download_button(...)
OfferDownload ==
    /\ At("success")
    /\ messages' = Append(messages, Success)
    /\ download' = TRUE
    /\ pc' = "end"
    /\ run' = "done"
    /\ UNCHANGED <<namelist, target_file, df, pivot_hours, pivot_days, book,
                   images, disk>>

Next ==
    \/ Button
    \/ DownloadAndExtract
    \/ TargetMissing
    \/ TargetFound
    \/ ProcessData
    \/ CreatePivotTables
    \/ OpenWriter
    \/ WriteHours
    \/ WriteDays
    \/ SaveMonthlyData
    \/ PlotAndSavePivotTables
    \/ EmbedImages
    \/ ExitWriter
    \/ OfferDownload

Spec == Init /\ [][Next]_vars

-----------------------------------------------------------------------------
(* Properties of create_pivot_tables *)

\* the years of the enumerated timestamps
AllYears == {TsYear(ts) : ts \in Timestamps}

\* create_pivot_tables has returned
Aggregated == pc \notin {"button", "download", "check", "process", "pivot"}

\* the years with at least one observation
YearsOf(frame) == {frame[i].Jahr : i \in 1..Len(frame)}

HasRow(table, year) == \E r \in 1..Len(table.index) : table.index[r] = year

HasCell(table, year, m) ==
    /\ HasRow(table, year)
    /\ \E c \in 1..Len(table.columns) : table.columns[c] = MonthLabels[m]

CellOf(table, year, m) ==
    LET r == CHOOSE q \in 1..Len(table.index) : table.index[q] = year
        c == CHOOSE q \in 1..Len(table.columns) : table.columns[q] = MonthLabels[m]
    IN  table.data[r][c]

\* the observations of (year, m) with value >= 27
HotObs(year, m) ==
    {i \in 1..Len(df) : df[i].Jahr = year /\ df[i].Monat = m /\ df[i].Wert >= 27}

\* the calendar days of (year, m) with at least one observation >= 27
HotDays(year, m) == {df[i].Tag : i \in HotObs(year, m)}

HotYear(year) == \E i \in 1..Len(df) : df[i].Jahr = year /\ df[i].Wert >= 27

\* C1 as stated: for every (year, month) of the time series the hour-variant
\* table holds in cell (year, month) the number of observations >= 27 of that
\* year and month, 0 for a bucket without one.
C1_HoursEveryBucket ==
    Aggregated =>
        \A year \in YearsOf(df) : \A m \in 1..12 :
            /\ HasCell(pivot_hours, year, m)
            /\ CellOf(pivot_hours, year, m) = Cardinality(HotObs(year, m))

\* C1 amended: for every year that has a row in the hour-variant table, cell
\* (year, month) holds the number of observations >= 27 of that year and
\* month, 0 for a month without one; a year without a row has no observation
\* >= 27 in any month.
C1_HoursPerRow ==
    Aggregated =>
        \A year \in AllYears : \A m \in 1..12 :
            IF HasRow(pivot_hours, year)
            THEN /\ HasCell(pivot_hours, year, m)
                 /\ CellOf(pivot_hours, year, m) = Cardinality(HotObs(year, m))
            ELSE HotObs(year, m) = {}

\* a row whose January cell counts two observations and whose July cell is an
\* empty bucket
C1_Witness ==
    /\ Aggregated
    /\ \E year \in AllYears :
         /\ HasCell(pivot_hours, year, 1)
         /\ CellOf(pivot_hours, year, 1) = 2
         /\ CellOf(pivot_hours, year, 7) = 0

\* C2 as stated: for every (year, month) of the time series the day-variant
\* table holds in cell (year, month) the number of distinct calendar days with
\* at least one observation >= 27.
C2_DaysEveryBucket ==
    Aggregated =>
        \A year \in YearsOf(df) : \A m \in 1..12 :
            /\ HasCell(pivot_days, year, m)
            /\ CellOf(pivot_days, year, m) = Cardinality(HotDays(year, m))

\* C2 amended: for every year that has a row in the day-variant table, cell
\* (year, month) holds the number of distinct calendar days of that year and
\* month with at least one observation >= 27, so that several such
\* observations on one day add 1; a year without a row has no such day.
C2_DaysPerRow ==
    Aggregated =>
        \A year \in AllYears : \A m \in 1..12 :
            IF HasRow(pivot_days, year)
            THEN /\ HasCell(pivot_days, year, m)
                 /\ CellOf(pivot_days, year, m) = Cardinality(HotDays(year, m))
            ELSE HotDays(year, m) = {}

\* two observations >= 27 on the same calendar day: the day cell is 1 where
\* the hour cell is 2
C2_Witness ==
    /\ Aggregated
    /\ \E year \in AllYears : \E m \in 1..12 :
         /\ Cardinality(HotObs(year, m)) = 2
         /\ HasCell(pivot_days, year, m)
         /\ CellOf(pivot_days, year, m) = 1
         /\ CellOf(pivot_hours, year, m) = 2

RowsWellFormed(table, hot(_, _)) ==
    /\ table.columns = MonthLabels
    /\ Len(table.data) = Len(table.index)
    /\ \A r \in 1..Len(table.index) :
         /\ Len(table.data[r]) = 12
         /\ \A m \in 1..12 : hot(table.index[r], m) = {} => table.data[r][m] = 0

\* C3: every row of the hour-variant and of the day-variant table has exactly
\* the 12 columns Jan..Dez in that order, with 0 in every month without an
\* exceedance.
C3_TwelveColumns ==
    Aggregated =>
        /\ RowsWellFormed(pivot_hours, HotObs)
        /\ RowsWellFormed(pivot_days, HotDays)

\* a row whose exceedances all fall in July: eleven zero cells and one count
C3_Witness ==
    /\ Aggregated
    /\ \E r \in 1..Len(pivot_hours.index) :
         /\ pivot_hours.data[r][7] > 0
         /\ \A m \in (1..12) \ {7} : pivot_hours.data[r][m] = 0
         /\ pivot_days.data[r][7] > 0

\* save_monthly_data has returned
MonthlySaved == pc \in {"plot", "embed", "exit", "success", "end"}

HasSheet(sheets, name) == \E i \in 1..Len(sheets) : sheets[i].name = name

\* C10: a year is a row of the hour-variant and of the day-variant table iff
\* it has an observation >= 27; a year whose observations are all below 27
\* has no row, yet its detail sheets are created.
C10_RowsOnlyForHotYears ==
    /\ Aggregated =>
         \A year \in AllYears :
            /\ HasRow(pivot_hours, year) <=> HotYear(year)
            /\ HasRow(pivot_days, year) <=> HotYear(year)
    /\ MonthlySaved =>
         \A i \in 1..Len(df) :
            HasSheet(book, SheetName(df[i].Jahr, MonthLabels[df[i].Monat]))

\* one year with an observation >= 27 and a row, another year with
\* observations below 27 only, no row and a detail sheet
C10_Witness ==
    /\ MonthlySaved
    /\ \E hotYear, coldYear \in YearsOf(df) :
         /\ HotYear(hotYear) /\ HasRow(pivot_hours, hotYear) /\ HasRow(pivot_days, hotYear)
         /\ ~HotYear(coldYear)
         /\ ~HasRow(pivot_hours, coldYear) /\ ~HasRow(pivot_days, coldYear)
         /\ \E m \in 1..12 : HasSheet(book, SheetName(coldYear, MonthLabels[m]))

-----------------------------------------------------------------------------
(* Properties of save_monthly_data and of the workbook *)

IsSummary(sheet) == sheet.name \in {SheetHours, SheetDays}

\* the positions of the sheets named name
SheetsNamed(sheets, name) == {i \in 1..Len(sheets) : sheets[i].name = name}

\* the observations of (year, m), in input order
ObsOf(year, m) == SelectSeq(df, LAMBDA r : r.Jahr = year /\ r.Monat = m)

\* C4: save_monthly_data creates a sheet named "{year}_{MonthAbbrev}" iff the
\* time series has an observation in that (year, month); the sheet has one
\* data row per observation of the period, in the order of the input.
C4_DetailSheets ==
    MonthlySaved =>
        /\ \A year \in AllYears : \A m \in 1..12 :
             LET obs  == ObsOf(year, m)
                 hits == SheetsNamed(book, SheetName(year, MonthLabels[m]))
             IN  /\ hits # {} <=> obs # <<>>
                 /\ Cardinality(hits) <= 1
                 /\ \A i \in hits :
                      /\ Len(book[i].rows) = Len(obs)
                      /\ \A k \in 1..Len(obs) :
                           book[i].rows[k] = <<Strftime(obs[k].Tag), obs[k].Uhrzeit, obs[k].Wert>>
        /\ \A i \in 1..Len(book) :
             \/ IsSummary(book[i])
             \/ \E year \in AllYears : \E m \in 1..12 :
                  book[i].name = SheetName(year, MonthLabels[m])

\* a detail sheet with two rows whose input order is not chronological, next
\* to a (year, month) without observation and without sheet
C4_Witness ==
    /\ MonthlySaved
    /\ \E i \in 1..Len(book) :
         /\ ~IsSummary(book[i])
         /\ Len(book[i].rows) = 2
         /\ book[i].rows[1][2] > book[i].rows[2][2]
         /\ book[i].rows[1][3] # book[i].rows[2][3]
    /\ \E year \in YearsOf(df) : ~HasSheet(book, SheetName(year, "Jul"))

\* the cells of a sheet: the header row and one row per data row
CellsOf(sheet) == (1..(Len(sheet.rows) + 1)) \X (1..Len(sheet.header))

FillCorrect(sheets) ==
    \A i \in 1..Len(sheets) :
        /\ sheets[i].fill \subseteq CellsOf(sheets[i])
        /\ \A cell \in CellsOf(sheets[i]) :
             cell \in sheets[i].fill <=>
                /\ ~IsSummary(sheets[i])
                /\ cell[2] = 3
                /\ cell[1] >= 2
                /\ sheets[i].rows[cell[1] - 1][3] >= 27

\* C5: a cell of the workbook, in memory and as saved, carries the highlight
\* fill iff it is a Temperature cell of a detail sheet with value >= 27; no
\* cell of a summary sheet and no Date or Time cell is highlighted.
C5_HighlightIff == FillCorrect(book) /\ FillCorrect(disk.sheets)

\* a saved detail sheet with a highlighted 27 and an unhighlighted 0 or -999
C5_Witness ==
    /\ run = "done"
    /\ \E i \in 1..Len(disk.sheets) :
         LET sheet == disk.sheets[i]
         IN  /\ ~IsSummary(sheet)
             /\ \E hi, lo \in 1..Len(sheet.rows) :
                  /\ sheet.rows[hi][3] = 27 /\ <<hi + 1, 3>> \in sheet.fill
                  /\ sheet.rows[lo][3] \in {0, -999} /\ <<lo + 1, 3>> \notin sheet.fill

\* the (year, month) pairs a sheet name stands for, as year * 100 + month
PeriodsOf(name) ==
    {year * 100 + m : <<year, m>> \in
        {ym \in AllYears \X (1..12) : SheetName(ym[1], MonthLabels[ym[2]]) = name}}

\* C9 as stated: whatever the order of the rows, the sheets are created in
\* the order hours summary, days summary, detail sheets in ascending
\* (year, month) order.
C9_SheetsAscending ==
    MonthlySaved =>
        /\ book[1].name = SheetHours
        /\ book[2].name = SheetDays
        /\ \A i, j \in 3..Len(book) :
             i < j => \A a \in PeriodsOf(book[i].name) :
                         \A b \in PeriodsOf(book[j].name) : a < b

-----------------------------------------------------------------------------
(* Properties of main *)

\* C6 as stated: when a run has failed, no workbook file written or partly
\* written by the run exists at the output path, and no download is offered.
C6_NoFileAfterFailure == run = "failed" => ~disk.exists /\ ~download

NoMatch == \A i \in 1..Len(namelist) : ~Contains(keyword, namelist[i])

\* C7: when the archive has no member whose name contains the keyword, the
\* run fails at the check of target_file with the error message shown; no
\* later statement is reached, nothing is parsed, aggregated, rendered or
\* written, no file exists and no download is offered.
C7_NoMatchFails ==
    (pc \notin {"button", "download"} /\ NoMatch) =>
        /\ pc = "check"
        /\ target_file = None
        /\ run = "running" => (ENABLED TargetMissing /\ ~ENABLED TargetFound)
        /\ run # "done"
        /\ run = "failed" => messages[Len(messages)] = ErrTarget
        /\ df = <<>>
        /\ pivot_hours = EmptyTable /\ pivot_days = EmptyTable
        /\ images = <<>>
        /\ book = <<>>
        /\ ~disk.exists
        /\ ~download

\* a downloaded archive with two members, none of them matching, after the
\* error return
C7_Witness ==
    /\ run = "failed"
    /\ Len(namelist) = 2
    /\ NoMatch
    /\ messages = <<ErrTarget>>

\* the stage of the orchestrator's state machine the run is in
Stage ==
    IF run = "failed" THEN "Failed"
    ELSE CASE pc = "button" -> "Idle"
           [] pc \in {"download", "check"} -> "Retrieving"
           [] pc = "process" -> "Parsing"
           [] pc = "pivot" -> "Aggregating"
           [] pc \in {"open", "hours", "days", "monthly", "embed", "exit"} -> "Writing"
           [] pc = "plot" -> "Rendering"
           [] pc \in {"success", "end"} -> "Done"

\* the position of a stage in Idle, Retrieving, Parsing, Aggregating,
\* Rendering, Writing, Done
ClaimedRank(stage) ==
    CASE stage = "Idle" -> 0
      [] stage = "Retrieving" -> 1
      [] stage = "Parsing" -> 2
      [] stage = "Aggregating" -> 3
      [] stage = "Rendering" -> 4
      [] stage = "Writing" -> 5
      [] stage = "Done" -> 6
      [] stage = "Failed" -> 7

Phase(l) ==
    CASE l = "button" -> 0
      [] l \in {"download", "check"} -> 1
      [] l = "process" -> 2
      [] l = "pivot" -> 3
      [] l \in {"open", "hours", "days", "monthly"} -> 4
      [] l = "plot" -> 5
      [] l \in {"embed", "exit"} -> 6
      [] l \in {"success", "end"} -> 7

====
